---- MODULE Spec2Model ----
(***************************************************************************)
(* Order service (services/order-service/main.go): the gin handlers for   *)
(* /api/orders behind authMiddleware, over one MongoDB collection.         *)
(*                                                                         *)
(* Each request is handled by a worker.  A handler is split at every       *)
(* repository call, and the call itself in two: the first step runs        *)
(* authMiddleware and the handler up to the call (binding, validation,     *)
(* clock reads) and leaves the handler parked in the driver; then MongoDB  *)
(* serves the operation (the store is read or written); then the reply     *)
(* wakes the handler, which answers.  Other workers' steps may fall        *)
(* between any two of these.  Handlers that answer before reaching the     *)
(* repository take one step.  getUserOrders makes two calls, Find and the  *)
(* getMore of cursor.All, the second only when the result does not end     *)
(* inside the first batch.                                                 *)
(*                                                                         *)
(* A repository call may fail (timeout, connectivity); a failed write may   *)
(* or may not have reached the store.                                      *)
(*                                                                         *)
(* Amounts are integers (minor units); timestamps are clock ticks.         *)
(* Spec takes requests from the union of all request sets; SpecAuth,       *)
(* SpecStatus, SpecItems and SpecLookup take them from the part that       *)
(* varies the credential, the status transition, the create body and the   *)
(* retrieved id (SpecStatus and SpecLookup without lists, SpecStatus with  *)
(* the clock advancing between creations only).  SpecConc and SpecList     *)
(* have two workers handling requests at once: in SpecConc both create and *)
(* transition orders, in SpecList one reads (lists, retrievals) while the  *)
(* other writes (creations, transitions).                                  *)
(***************************************************************************)
EXTENDS Integers, Sequences, FiniteSets, TLC

\* ---------------------------------------------------------------- bounds
MaxOrders == 2      \* orders createOrder builds (order ids issued)
MaxClock == 1       \* largest value the wall clock reaches
\* documents in the first batch of a cursor (the server's default is 101),
\* scaled down so that a result of MaxOrders documents spans two batches
FirstBatchSize == 1

Workers == {"w1"}
Users == {"u1", "u2"}

Nil == "-"

\* ------------------------------------------------- dynamically typed values
\* interface{} values held in jwt.MapClaims and gin.Context.Keys
StrV(s) == [t |-> "string", v |-> s]
NumV(n) == [t |-> "number", v |-> n]
NilV == [t |-> "nil"]

\* ------------------------------------------------------------- credentials
\* A token string: wf = three decodable segments, alg = header "alg",
\* key = the key it was signed with, exp, iat, nbf = its time claims relative
\* to now ("past", "future" or "absent"), claims = the remaining claim map.
TokenAt(alg, key, exp, iat, nbf, claims) ==
    [wf |-> TRUE, alg |-> alg, key |-> key, exp |-> exp, iat |-> iat, nbf |-> nbf,
     claims |-> claims]

\* a token as jsonwebtoken's sign stamps it: "iat" at issue, no "nbf"
Token(alg, key, exp, claims) == TokenAt(alg, key, exp, "past", "absent", claims)

\* a string that is not three decodable segments, and the empty string
Garbage ==
    [wf |-> FALSE, alg |-> "garbage", key |-> Nil, exp |-> Nil, iat |-> Nil, nbf |-> Nil,
     claims |-> <<>>]
Empty ==
    [wf |-> FALSE, alg |-> "", key |-> Nil, exp |-> Nil, iat |-> Nil, nbf |-> Nil,
     claims |-> <<>>]

UserClaims(u) == [userId |-> StrV(u), email |-> StrV("a@b.c")]

TokU1 == Token("HS256", "secret", "future", UserClaims("u1"))
TokU2 == Token("HS256", "secret", "future", UserClaims("u2"))
TokNoUid == Token("HS256", "secret", "future", [email |-> StrV("a@b.c")])
TokNumUid == Token("HS256", "secret", "future", [userId |-> NumV(42)])
TokNoExp == Token("HS256", "secret", "absent", UserClaims("u1"))
TokHS384 == Token("HS384", "secret", "future", UserClaims("u2"))
TokHS512 == Token("HS512", "secret", "future", UserClaims("u1"))
TokBadSig == Token("HS256", "other", "future", UserClaims("u1"))
TokExpired == Token("HS256", "secret", "past", UserClaims("u1"))
TokIssuedAhead == TokenAt("HS256", "secret", "future", "future", "absent", UserClaims("u1"))
TokNotYetValid == TokenAt("HS256", "secret", "future", "past", "future", UserClaims("u1"))
TokNoIat == TokenAt("HS256", "secret", "future", "absent", "past", UserClaims("u2"))
TokRS256 == Token("RS256", "secret", "future", UserClaims("u1"))
TokAlgNone == Token("none", "secret", "future", UserClaims("u1"))
TokUnknownAlg == Token("XS999", "secret", "future", UserClaims("u1"))

\* An Authorization header value: a prefix followed by the rest.
\* The empty header is prefix "" with the empty rest.
Header(prefix, rest) == [prefix |-> prefix, rest |-> rest]

NoHeader == Header("", Empty)

\* the service's configured secret (jwtSecret)
jwtSecret == "secret"

\* jwt.SigningMethodHMAC instances registered by the library
SigningMethodHMAC == {"HS256", "HS384", "HS512"}

\* algorithms the library has a signing method for
RegisteredAlgs == SigningMethodHMAC \cup {"RS256", "none"}

\* strings.TrimPrefix(authHeader, "Bearer ")
TrimPrefix(h) == IF h.prefix = "Bearer " THEN Header("", h.rest) ELSE h

\* a key function that hands out the secret whatever the signing method
KeyFuncAnyMethod(tok) == [err |-> FALSE, key |-> jwtSecret]

\* the key function passed to jwt.Parse: [err, key]
KeyFunc(tok) ==
    IF tok.alg \notin SigningMethodHMAC
    THEN [err |-> TRUE, key |-> Nil]
    ELSE [err |-> FALSE, key |-> jwtSecret]

\* jwt.Parse that skips the signature verification
JwtParseUnverified(tokenString) ==
    /\ tokenString.prefix = ""
    /\ tokenString.rest.wf
    /\ tokenString.rest.alg \in RegisteredAlgs
    /\ ~KeyFunc(tokenString.rest).err
    /\ tokenString.rest.exp # "past"
    /\ tokenString.rest.iat # "future"
    /\ tokenString.rest.nbf # "future"

\* jwt.Parse(tokenString, keyFunc): TRUE iff err == nil && token.Valid.
\* MapClaims.Valid refuses a past "exp", a future "iat" and a future "nbf";
\* an absent time claim passes.
JwtParseOK(tokenString) ==
    /\ tokenString.prefix = ""
    /\ tokenString.rest.wf
    /\ tokenString.rest.alg \in RegisteredAlgs
    /\ ~KeyFunc(tokenString.rest).err
    /\ tokenString.rest.exp # "past"
    /\ tokenString.rest.iat # "future"
    /\ tokenString.rest.nbf # "future"
    /\ tokenString.rest.key = KeyFunc(tokenString.rest).key

\* claims[k] on a map: the zero value nil when the key is absent
MapGet(m, k) == IF k \in DOMAIN m THEN m[k] ELSE NilV

Resp(code, body) == [code |-> code, body |-> body]

\* authMiddleware: either aborts with a response or sets the context keys
authMiddleware(authHeader) ==
    IF authHeader = NoHeader
    THEN [abort |-> TRUE, resp |-> Resp(401, "Authorization header required"),
          keys |-> <<>>]
    ELSE IF TrimPrefix(authHeader) = authHeader
    THEN [abort |-> TRUE, resp |-> Resp(401, "Bearer token required"), keys |-> <<>>]
    ELSE IF ~JwtParseOK(TrimPrefix(authHeader))
    THEN [abort |-> TRUE, resp |-> Resp(401, "Invalid token"), keys |-> <<>>]
    ELSE [abort |-> FALSE, resp |-> Resp(0, Nil),
          keys |-> [userID |-> MapGet(TrimPrefix(authHeader).rest.claims, "userId"),
                    email |-> MapGet(TrimPrefix(authHeader).rest.claims, "email")]]

\* c.Get(key): exists
KeyExists(keys, k) == k \in DOMAIN keys

\* v.(string) succeeds
IsString(v) == v.t = "string"

\* ------------------------------------------------------------------ orders
OrderItem(p, n, price, qty) ==
    [product_id |-> p, name |-> n, price |-> price, quantity |-> qty]

\* item lists a client may send
GoodItems == <<OrderItem("p1", "pen", 5, 1), OrderItem("p2", "ink", 3, 2)>>
\* a negative price, a zero quantity and a negative quantity
BadItems == <<OrderItem("p1", "pen", -2, 1), OrderItem("p2", "ink", 4, 0),
              OrderItem("p3", "cap", 1, -1)>>
ItemLists == {<<>>, GoodItems, BadItems}

\* a total that adds the prices and forgets the quantities
RECURSIVE TotalAmountNoQty(_)
TotalAmountNoQty(items) ==
    IF items = <<>> THEN 0
    ELSE TotalAmountNoQty(SubSeq(items, 1, Len(items) - 1)) + items[Len(items)].price

\* the loop of createOrder: totalAmount += item.Price * float64(item.Quantity)
RECURSIVE TotalAmount(_)
TotalAmount(items) ==
    IF items = <<>> THEN 0
    ELSE TotalAmount(SubSeq(items, 1, Len(items) - 1))
         + items[Len(items)].price * items[Len(items)].quantity

\* a status map with one entry too many, and one compared without case
validStatusesExtra ==
    {"pending", "confirmed", "shipped", "delivered", "cancelled", "refunded"}
validStatusesAnyCase ==
    {"pending", "confirmed", "shipped", "delivered", "cancelled", "PENDING"}

\* the validStatuses map of updateOrderStatus
validStatuses == {"pending", "confirmed", "shipped", "delivered", "cancelled"}

\* an Order literal that starts the order as confirmed
NewOrderConfirmed(uuid, userID, items, createdAt, updatedAt) ==
    [id |-> 0,
     order_id |-> uuid,
     user_id |-> userID,
     items |-> items,
     total_amount |-> TotalAmount(items),
     status |-> "confirmed",
     created_at |-> createdAt,
     updated_at |-> updatedAt]

\* the Order literal of createOrder; id is the zero ObjectID until inserted
NewOrder(uuid, userID, items, createdAt, updatedAt) ==
    [id |-> 0,
     order_id |-> uuid,
     user_id |-> userID,
     items |-> items,
     total_amount |-> TotalAmount(items),
     status |-> "pending",
     created_at |-> createdAt,
     updated_at |-> updatedAt]

\* ------------------------------------------------------------- object ids
\* A path parameter is a sequence of characters; a character is its hex
\* value 0..15, or NonHex for a character that is not a hex digit.
ObjectIDHexLen == 24
NonHex == 16

RECURSIVE HexValue(_)
HexValue(s) ==
    IF s = <<>> THEN 0
    ELSE 16 * HexValue(SubSeq(s, 1, Len(s) - 1)) + s[Len(s)]

\* primitive.ObjectIDFromHex: [err, oid]
ObjectIDFromHex(s) ==
    IF Len(s) # ObjectIDHexLen THEN [err |-> TRUE, oid |-> 0]
    ELSE IF \E i \in 1..Len(s) : s[i] \notin 0..15 THEN [err |-> TRUE, oid |-> 0]
    ELSE [err |-> FALSE, oid |-> HexValue(s)]

\* ObjectID.Hex() for the ids the model generates (below 16)
Hex(n) == [i \in 1..ObjectIDHexLen |-> IF i = ObjectIDHexLen THEN n ELSE 0]

\* -------------------------------------------------------------- repository
\* the collection is a set of documents with distinct _id

\* collection.InsertOne: the driver fills the omitted _id
InsertOne(coll, order, oid) == coll \cup {[order EXCEPT !.id = oid]}

\* a FindOne served from a copy of the document taken at creation
FindOneStale(coll, oid) ==
    {[o EXCEPT !.status = "pending", !.updated_at = o.created_at] :
        o \in {d \in coll : d.id = oid}}

\* collection.FindOne(bson.M{"_id": objectID}): the matching documents
FindOne(coll, oid) == {o \in coll : o.id = oid}

\* a Find whose filter is empty
FindAll(coll, userID) == coll

\* the documents the filter bson.M{"user_id": userID} matches
Find(coll, userID) == {o \in coll : o.user_id = userID}

\* the first batch collection.Find returns: the first FirstBatchSize matching
\* documents in _id order
FirstBatch(coll, userID) ==
    {o \in Find(coll, userID) :
        Cardinality({p \in Find(coll, userID) : p.id < o.id}) < FirstBatchSize}

\* the cursor is closed by the server when the result ended inside the batch
Exhausted(coll, userID) == Cardinality(Find(coll, userID)) < FirstBatchSize

\* the cursor position after a batch: the greatest _id it holds
LastId(batch) == CHOOSE n \in {o.id : o \in batch} : \A o \in batch : o.id <= n

\* the getMore of cursor.All: the matching documents after the position
GetMore(coll, userID, last) == {o \in Find(coll, userID) : o.id > last}

\* an update guarded by the status the order was created with
UpdateOneCompareAndSwap(coll, oid, status, updatedAt) ==
    {IF o.id = oid /\ o.status = "pending"
     THEN [o EXCEPT !.status = status, !.updated_at = updatedAt]
     ELSE o : o \in coll}

\* an update whose filter matches every document
UpdateMany(coll, oid, status, updatedAt) ==
    {[o EXCEPT !.status = status, !.updated_at = updatedAt] : o \in coll}

\* collection.UpdateOne(bson.M{"_id": objectID}, $set{status, updated_at})
UpdateOne(coll, oid, status, updatedAt) ==
    {IF o.id = oid THEN [o EXCEPT !.status = status, !.updated_at = updatedAt]
     ELSE o : o \in coll}

\* a count of the documents of the collection, whatever their _id
CountDocuments(coll, oid) == Cardinality(coll)

\* result.MatchedCount
MatchedCount(coll, oid) == Cardinality({o \in coll : o.id = oid})

\* result.ModifiedCount: the matched documents the $set changes
ModifiedCount(coll, oid, status, updatedAt) ==
    Cardinality({o \in coll :
        o.id = oid /\ (o.status # status \/ o.updated_at # updatedAt)})

\* the *mongo.UpdateResult of UpdateOne on coll
UpdateResult(coll, oid, status, updatedAt) ==
    [MatchedCount |-> MatchedCount(coll, oid),
     ModifiedCount |-> ModifiedCount(coll, oid, status, updatedAt)]

\* ---------------------------------------------------------------- requests
\* a JSON body: present = the "items" key is there with a non-null array;
\* status = the "status" string, "" when absent or empty
Body(present, items, status) ==
    [present |-> present, items |-> items, status |-> status]

NoBody == Body(FALSE, <<>>, "")

Req(op, hdr, id, userId, body) ==
    [op |-> op, hdr |-> hdr, id |-> id, userId |-> userId, body |-> body]

\* credentials explored with every input, and all credentials
CoreHeaders == {Header("Bearer ", TokU1), Header("Bearer ", TokU2)}

Headers ==
    CoreHeaders \cup
    {NoHeader, Header("Basic ", TokU1), Header("bearer ", TokU1), Header("", TokU1),
     Header("Bearer ", Empty), Header("Bearer ", Garbage)} \cup
    {Header("Bearer ", t) :
        t \in {TokNoUid, TokNumUid, TokNoExp, TokHS384, TokHS512, TokBadSig, TokExpired, TokRS256,
               TokAlgNone, TokUnknownAlg, TokIssuedAhead, TokNotYetValid, TokNoIat}}

\* {id} path parameters: the ids the store can assign, one it never assigns,
\* a short string and a 24-character string with a non-hex character
ShortId == <<0, 1>>
NonHexId == [i \in 1..ObjectIDHexLen |-> IF i = 1 THEN NonHex ELSE 1]
IdParams == {Hex(n) : n \in 1..(MaxOrders + 1)} \cup {ShortId, NonHexId}

StatusInputs == validStatuses \cup {"refunded", "PENDING", ""}

CreateBodies == {Body(TRUE, items, "") : items \in ItemLists} \cup {NoBody}
StatusBodies == {Body(FALSE, <<>>, st) : st \in StatusInputs}

CreateRequests ==
    {Req("create", h, <<>>, "", b) : h \in CoreHeaders, b \in CreateBodies} \cup
    {Req("create", h, <<>>, "", Body(TRUE, GoodItems, "")) : h \in Headers}

GetRequests ==
    {Req("get", h, id, "", NoBody) : h \in CoreHeaders, id \in IdParams} \cup
    {Req("get", h, Hex(1), "", NoBody) : h \in Headers}

ListRequests ==
    {Req("list", h, <<>>, u, NoBody) : h \in Headers, u \in Users}

\* every id and every target status, by either subject
IdStatusRequests ==
    {Req("status", h, id, "", b) : h \in CoreHeaders, id \in IdParams, b \in StatusBodies}

StatusRequests ==
    IdStatusRequests
    \cup {Req("status", h, Hex(1), "", Body(FALSE, <<>>, "shipped")) : h \in Headers}

\* ------------------------------------------------------------------- state
VARIABLES
    store,          \* the "orders" collection
    clock,          \* time.Now()
    uuidCounter,    \* order ids issued by uuid.New()
    oidCounter,     \* ObjectIDs generated by the driver
    ctx             \* per worker: the request being handled (gin.Context)

vars == <<store, clock, uuidCounter, oidCounter, ctx>>

\* a worker's context: pc is "idle", the repository call the handler is
\* parked in (before the store has served it, or "...Reply" once it has), or
\* "done"; op holds the handler's locals around the call
Ctx(pc, req, keys, op, resp, calls) ==
    [pc |-> pc, req |-> req, keys |-> keys, op |-> op, resp |-> resp, calls |-> calls]

IdleCtx == Ctx("idle", Req("none", NoHeader, <<>>, "", NoBody), <<>>, Nil, Resp(0, Nil), 0)

\* the handler answered without reaching the repository
Answer(w, req, keys, resp) ==
    ctx' = [ctx EXCEPT ![w] = Ctx("done", req, keys, Nil, resp, 0)]

\* the handler issued its repository call
Call(w, pc, req, keys, op) ==
    ctx' = [ctx EXCEPT ![w] = Ctx(pc, req, keys, op, Resp(0, Nil), 0)]

\* the store has served the call of worker w (op holds what the driver will
\* hand back); the handler stays parked until the reply wakes it
Served(w, pc, op) ==
    ctx' = [ctx EXCEPT ![w] = [@ EXCEPT !.pc = pc, !.op = op, !.calls = @ + 1]]

\* the reply woke the handler and it answered
Return(w, resp) ==
    ctx' = [ctx EXCEPT ![w] = [@ EXCEPT !.pc = "done", !.resp = resp]]

\* gin.Recovery answering a panicking handler
Recovered == Resp(500, "panic")

Free(w) == ctx[w].pc = "idle"

Init ==
    /\ store = {}
    /\ clock = 0
    /\ uuidCounter = 0
    /\ oidCounter = 0
    /\ ctx = [w \in Workers |-> IdleCtx]

\* the wall clock advances
Tick ==
    /\ clock < MaxClock
    /\ clock' = clock + 1
    /\ UNCHANGED <<store, uuidCounter, oidCounter, ctx>>

\* a generator that returns its first value again
NewUUIDRepeating(issued) == 1

\* uuid.New().String(): a value no earlier call returned
NewUUID(issued) == issued + 1

\* the driver's primitive.NewObjectID(): a value no earlier call returned
NewObjectID(generated) == generated + 1

\* ---------------------------------------------------------------- handlers
\* POST /api/orders: authMiddleware, then createOrder up to InsertOne
createOrder(w, reqs) ==
    /\ Free(w)
    /\ \E req \in reqs :
         LET a == authMiddleware(req.hdr) IN
         IF a.abort
         THEN /\ Answer(w, req, a.keys, a.resp)
              /\ UNCHANGED <<store, clock, uuidCounter, oidCounter>>
         ELSE IF ~req.body.present
         THEN /\ Answer(w, req, a.keys, Resp(400, "binding: Items required"))
              /\ UNCHANGED <<store, clock, uuidCounter, oidCounter>>
         ELSE IF ~KeyExists(a.keys, "userID")
         THEN /\ Answer(w, req, a.keys, Resp(401, "User ID not found"))
              /\ UNCHANGED <<store, clock, uuidCounter, oidCounter>>
         ELSE IF ~IsString(a.keys.userID)
         THEN /\ Answer(w, req, a.keys, Recovered)
              /\ UNCHANGED <<store, clock, uuidCounter, oidCounter>>
         ELSE /\ uuidCounter < MaxOrders
              /\ uuidCounter' = NewUUID(uuidCounter)
              /\ \E d \in {0, 1} :
                   /\ clock + d <= MaxClock
                   /\ clock' = clock + d
                   /\ Call(w, "insert", req, a.keys,
                           [order |-> NewOrder(NewUUID(uuidCounter), a.keys.userID.v,
                                               req.body.items, clock, clock + d),
                            result |-> NilV,
                            err |-> ""])
              /\ UNCHANGED <<store, oidCounter>>

\* MongoDB serves the InsertOne of createOrder: the document is stored under
\* a new _id and the result is on its way, or the call ends in an error,
\* with the document stored or not
createOrderInsertOne(w) ==
    /\ ctx[w].pc = "insert"
    /\ oidCounter' = NewObjectID(oidCounter)
    /\ \/ /\ store' = InsertOne(store, ctx[w].op.order, NewObjectID(oidCounter))
          /\ Served(w, "insertReply",
                    [ctx[w].op EXCEPT !.result = [InsertedID |-> NewObjectID(oidCounter)]])
       \/ /\ store' \in {store, InsertOne(store, ctx[w].op.order, NewObjectID(oidCounter))}
          /\ Served(w, "insertReply", [ctx[w].op EXCEPT !.err = "error"])
    /\ UNCHANGED <<clock, uuidCounter>>

\* InsertOne returns to createOrder, which answers
createOrderInsertOneReply(w) ==
    /\ ctx[w].pc = "insertReply"
    /\ IF ctx[w].op.err # ""
       THEN Return(w, Resp(500, "Failed to create order"))
       ELSE Return(w, Resp(201, [ctx[w].op.order EXCEPT !.id = ctx[w].op.result.InsertedID]))
    /\ UNCHANGED <<store, clock, uuidCounter, oidCounter>>

\* GET /api/orders/:id: authMiddleware, then getOrder up to FindOne
getOrder(w, reqs) ==
    /\ Free(w)
    /\ \E req \in reqs :
         LET a == authMiddleware(req.hdr) IN
         IF a.abort
         THEN Answer(w, req, a.keys, a.resp)
         ELSE IF ObjectIDFromHex(req.id).err
         THEN Answer(w, req, a.keys, Resp(400, "Invalid order ID"))
         ELSE Call(w, "findOne", req, a.keys,
                   [oid |-> ObjectIDFromHex(req.id).oid, order |-> NilV, err |-> ""])
    /\ UNCHANGED <<store, clock, uuidCounter, oidCounter>>

\* MongoDB serves the FindOne of getOrder: the matching document as it is
\* stored now, no document, or an error
getOrderFindOne(w) ==
    /\ ctx[w].pc = "findOne"
    /\ \/ IF FindOne(store, ctx[w].op.oid) = {}
          THEN Served(w, "findOneReply", [ctx[w].op EXCEPT !.err = "ErrNoDocuments"])
          ELSE \E o \in FindOne(store, ctx[w].op.oid) :
                 Served(w, "findOneReply", [ctx[w].op EXCEPT !.order = o])
       \/ Served(w, "findOneReply", [ctx[w].op EXCEPT !.err = "error"])
    /\ UNCHANGED <<store, clock, uuidCounter, oidCounter>>

\* a getOrder that answers 403 for an order of another subject
getOrderFindOneReplyOwned(w) ==
    /\ ctx[w].pc = "findOneReply"
    /\ IF ctx[w].op.err = "ErrNoDocuments"
       THEN Return(w, Resp(404, "Order not found"))
       ELSE IF ctx[w].op.err # ""
       THEN Return(w, Resp(500, "Failed to get order"))
       ELSE IF StrV(ctx[w].op.order.user_id) # ctx[w].keys.userID
       THEN Return(w, Resp(403, "Access denied"))
       ELSE Return(w, Resp(200, ctx[w].op.order))
    /\ UNCHANGED <<store, clock, uuidCounter, oidCounter>>

\* FindOne(...).Decode returns to getOrder, which answers with the document
\* decoded
getOrderFindOneReply(w) ==
    /\ ctx[w].pc = "findOneReply"
    /\ IF ctx[w].op.err = "ErrNoDocuments"
       THEN Return(w, Resp(404, "Order not found"))
       ELSE IF ctx[w].op.err # ""
       THEN Return(w, Resp(500, "Failed to get order"))
       ELSE Return(w, Resp(200, ctx[w].op.order))
    /\ UNCHANGED <<store, clock, uuidCounter, oidCounter>>

\* the ownership check of getUserOrders: "ok", "denied" or "panic"
CheckOwner(keys, userID) ==
    IF ~KeyExists(keys, "userID") THEN "denied"
    ELSE IF ~IsString(keys.userID) THEN "panic"
    ELSE IF keys.userID.v # userID THEN "denied"
    ELSE "ok"

\* GET /api/orders/user/:userId: authMiddleware, then getUserOrders up to Find
getUserOrders(w, reqs) ==
    /\ Free(w)
    /\ \E req \in reqs :
         LET a == authMiddleware(req.hdr) IN
         IF a.abort
         THEN Answer(w, req, a.keys, a.resp)
         ELSE IF CheckOwner(a.keys, req.userId) = "denied"
         THEN Answer(w, req, a.keys, Resp(403, "Access denied"))
         ELSE IF CheckOwner(a.keys, req.userId) = "panic"
         THEN Answer(w, req, a.keys, Recovered)
         ELSE Call(w, "find", req, a.keys,
                   [userId |-> req.userId, batch |-> {}, exhausted |-> FALSE,
                    orders |-> {}, err |-> ""])
    /\ UNCHANGED <<store, clock, uuidCounter, oidCounter>>

\* MongoDB serves the Find of getUserOrders: the first batch of the matching
\* documents as they are stored now, and whether the result ended inside it
getUserOrdersFind(w) ==
    /\ ctx[w].pc = "find"
    /\ \/ Served(w, "findReply",
                 [ctx[w].op EXCEPT !.batch = FirstBatch(store, ctx[w].op.userId),
                                   !.exhausted = Exhausted(store, ctx[w].op.userId)])
       \/ Served(w, "findReply", [ctx[w].op EXCEPT !.err = "error"])
    /\ UNCHANGED <<store, clock, uuidCounter, oidCounter>>

\* Find returns the cursor to getUserOrders, which goes on to cursor.All: on
\* an exhausted cursor it decodes the batch without a further call and the
\* handler answers, otherwise it sends a getMore
getUserOrdersFindReply(w) ==
    /\ ctx[w].pc = "findReply"
    /\ IF ctx[w].op.err # ""
       THEN Return(w, Resp(500, "Failed to get orders"))
       ELSE IF ctx[w].op.exhausted
       THEN Return(w, Resp(200, ctx[w].op.batch))
       ELSE ctx' = [ctx EXCEPT ![w] = [@ EXCEPT !.pc = "cursorAll"]]
    /\ UNCHANGED <<store, clock, uuidCounter, oidCounter>>

\* MongoDB serves the getMore of cursor.All: the matching documents after the
\* cursor's position as they are stored now
getUserOrdersCursorAll(w) ==
    /\ ctx[w].pc = "cursorAll"
    /\ \/ Served(w, "cursorAllReply",
                 [ctx[w].op EXCEPT !.orders =
                     ctx[w].op.batch
                     \cup GetMore(store, ctx[w].op.userId, LastId(ctx[w].op.batch))])
       \/ Served(w, "cursorAllReply", [ctx[w].op EXCEPT !.err = "error"])
    /\ UNCHANGED <<store, clock, uuidCounter, oidCounter>>

\* cursor.All returns to getUserOrders, which answers with the decoded orders
getUserOrdersCursorAllReply(w) ==
    /\ ctx[w].pc = "cursorAllReply"
    /\ IF ctx[w].op.err # ""
       THEN Return(w, Resp(500, "Failed to get orders"))
       ELSE Return(w, Resp(200, ctx[w].op.orders))
    /\ UNCHANGED <<store, clock, uuidCounter, oidCounter>>

\* PUT /api/orders/:id/status: authMiddleware, then updateOrderStatus up to
\* UpdateOne
updateOrderStatus(w, reqs) ==
    /\ Free(w)
    /\ \E req \in reqs :
         LET a == authMiddleware(req.hdr) IN
         IF a.abort
         THEN Answer(w, req, a.keys, a.resp)
         ELSE IF ObjectIDFromHex(req.id).err
         THEN Answer(w, req, a.keys, Resp(400, "Invalid order ID"))
         ELSE IF req.body.status = ""
         THEN Answer(w, req, a.keys, Resp(400, "binding: Status required"))
         ELSE IF req.body.status \notin validStatuses
         THEN Answer(w, req, a.keys, Resp(400, "Invalid status"))
         ELSE Call(w, "update", req, a.keys,
                   [oid |-> ObjectIDFromHex(req.id).oid,
                    status |-> req.body.status,
                    updated_at |-> clock,
                    result |-> NilV,
                    err |-> ""])
    /\ UNCHANGED <<store, clock, uuidCounter, oidCounter>>

\* an UpdateOne whose filter also names the caller as the order's owner
updateOrderStatusUpdateOneOwned(w) ==
    /\ ctx[w].pc = "update"
    /\ LET op == ctx[w].op
           owned == {o \in store : StrV(o.user_id) = ctx[w].keys.userID}
           applied == (store \ owned)
                      \cup UpdateOne(owned, op.oid, op.status, op.updated_at)
           result == UpdateResult(owned, op.oid, op.status, op.updated_at) IN
       \/ /\ store' = applied
          /\ Served(w, "updateReply", [op EXCEPT !.result = result])
       \/ /\ store' \in {store, applied}
          /\ Served(w, "updateReply", [op EXCEPT !.err = "error"])
    /\ UNCHANGED <<clock, uuidCounter, oidCounter>>

\* an UpdateOne whose filter leaves out the orders that are delivered or
\* cancelled
updateOrderStatusUpdateOneTerminal(w) ==
    /\ ctx[w].pc = "update"
    /\ LET op == ctx[w].op
           open == {o \in store : o.status \notin {"delivered", "cancelled"}}
           applied == (store \ open)
                      \cup UpdateOne(open, op.oid, op.status, op.updated_at)
           result == UpdateResult(open, op.oid, op.status, op.updated_at) IN
       \/ /\ store' = applied
          /\ Served(w, "updateReply", [op EXCEPT !.result = result])
       \/ /\ store' \in {store, applied}
          /\ Served(w, "updateReply", [op EXCEPT !.err = "error"])
    /\ UNCHANGED <<clock, uuidCounter, oidCounter>>

\* MongoDB serves the UpdateOne of updateOrderStatus: the $set is applied to
\* the document as it is stored now and the counts of the result are taken,
\* or the call ends in an error (result nil), with the write applied or not
updateOrderStatusUpdateOne(w) ==
    /\ ctx[w].pc = "update"
    /\ LET op == ctx[w].op
           applied == UpdateOne(store, op.oid, op.status, op.updated_at)
           result == UpdateResult(store, op.oid, op.status, op.updated_at) IN
       \/ /\ store' = applied
          /\ Served(w, "updateReply", [op EXCEPT !.result = result])
       \/ /\ store' \in {store, applied}
          /\ Served(w, "updateReply", [op EXCEPT !.err = "error"])
    /\ UNCHANGED <<clock, uuidCounter, oidCounter>>

\* a handler that decides existence by result.ModifiedCount: the number of
\* matched documents the $set actually changed
updateOrderStatusUpdateOneReplyModifiedCount(w) ==
    /\ ctx[w].pc = "updateReply"
    /\ IF ctx[w].op.err # ""
       THEN Return(w, Resp(500, "Failed to update order"))
       ELSE IF ctx[w].op.result.ModifiedCount = 0
       THEN Return(w, Resp(404, "Order not found"))
       ELSE Return(w, Resp(200, [message |-> "Order status updated successfully",
                                 status |-> ctx[w].op.status]))
    /\ UNCHANGED <<store, clock, uuidCounter, oidCounter>>

\* UpdateOne returns to updateOrderStatus, which answers from err and
\* result.MatchedCount
updateOrderStatusUpdateOneReply(w) ==
    /\ ctx[w].pc = "updateReply"
    /\ IF ctx[w].op.err # ""
       THEN Return(w, Resp(500, "Failed to update order"))
       ELSE IF ctx[w].op.result.MatchedCount = 0
       THEN Return(w, Resp(404, "Order not found"))
       ELSE Return(w, Resp(200, [message |-> "Order status updated successfully",
                                 status |-> ctx[w].op.status]))
    /\ UNCHANGED <<store, clock, uuidCounter, oidCounter>>

\* the handler has returned; the worker takes the next request
Finish(w) ==
    /\ ctx[w].pc = "done"
    /\ ctx' = [ctx EXCEPT ![w] = IdleCtx]
    /\ UNCHANGED <<store, clock, uuidCounter, oidCounter>>

Next ==
    \/ Tick
    \/ \E w \in Workers :
         \/ createOrder(w, CreateRequests)
         \/ createOrderInsertOne(w)
         \/ createOrderInsertOneReply(w)
         \/ getOrder(w, GetRequests)
         \/ getOrderFindOne(w)
         \/ getOrderFindOneReply(w)
         \/ getUserOrders(w, ListRequests)
         \/ getUserOrdersFind(w)
         \/ getUserOrdersFindReply(w)
         \/ getUserOrdersCursorAll(w)
         \/ getUserOrdersCursorAllReply(w)
         \/ updateOrderStatus(w, StatusRequests)
         \/ updateOrderStatusUpdateOne(w)
         \/ updateOrderStatusUpdateOneReply(w)
         \/ Finish(w)

Spec == Init /\ [][Next]_vars

\* ------------------------------------------------------- focused request sets
\* The same handlers over narrower sets of requests: each specification
\* varies one dimension of the input in full and keeps the others to
\* representative values.

BearerU1 == Header("Bearer ", TokU1)
BearerU2 == Header("Bearer ", TokU2)

\* every credential, with one request body per route
AuthCreateRequests ==
    {Req("create", h, <<>>, "", Body(TRUE, GoodItems, "")) : h \in Headers}
AuthGetRequests == {Req("get", h, Hex(1), "", NoBody) : h \in Headers}
AuthStatusRequests ==
    {Req("status", h, Hex(1), "", Body(FALSE, <<>>, "shipped")) : h \in Headers}

NextAuth ==
    \/ Tick
    \/ \E w \in Workers :
         \/ createOrder(w, AuthCreateRequests)
         \/ createOrderInsertOne(w)
         \/ createOrderInsertOneReply(w)
         \/ getOrder(w, AuthGetRequests)
         \/ getOrderFindOne(w)
         \/ getOrderFindOneReply(w)
         \/ getUserOrders(w, ListRequests)
         \/ getUserOrdersFind(w)
         \/ getUserOrdersFindReply(w)
         \/ getUserOrdersCursorAll(w)
         \/ getUserOrdersCursorAllReply(w)
         \/ updateOrderStatus(w, AuthStatusRequests)
         \/ updateOrderStatusUpdateOne(w)
         \/ updateOrderStatusUpdateOneReply(w)
         \/ Finish(w)

SpecAuth == Init /\ [][NextAuth]_vars

\* every id and every target status, by the owner and by another subject;
\* the clock advances between the two clock reads of createOrder only
StatusCreateRequests == {Req("create", BearerU1, <<>>, "", Body(TRUE, GoodItems, ""))}
StatusGetRequests == {Req("get", BearerU2, Hex(1), "", NoBody)}
StatusListRequests == {Req("list", BearerU1, <<>>, "u1", NoBody)}

NextStatus ==
    \E w \in Workers :
      \/ createOrder(w, StatusCreateRequests)
      \/ createOrderInsertOne(w)
      \/ createOrderInsertOneReply(w)
      \/ getOrder(w, StatusGetRequests)
      \/ getOrderFindOne(w)
      \/ getOrderFindOneReply(w)
      \/ updateOrderStatus(w, IdStatusRequests)
      \/ updateOrderStatusUpdateOne(w)
      \/ updateOrderStatusUpdateOneReply(w)
      \/ Finish(w)

SpecStatus == Init /\ [][NextStatus]_vars

\* every create body and every listing, by either subject
ItemsCreateRequests ==
    {Req("create", h, <<>>, "", b) : h \in CoreHeaders, b \in CreateBodies}
ItemsGetRequests == {Req("get", h, id, "", NoBody) : h \in CoreHeaders, id \in IdParams}
ItemsListRequests == {Req("list", h, <<>>, u, NoBody) : h \in CoreHeaders, u \in Users}
ItemsStatusRequests ==
    {Req("status", BearerU2, Hex(1), "", Body(FALSE, <<>>, "shipped"))}

NextItems ==
    \/ Tick
    \/ \E w \in Workers :
         \/ createOrder(w, ItemsCreateRequests)
         \/ createOrderInsertOne(w)
         \/ createOrderInsertOneReply(w)
         \/ getOrder(w, ItemsGetRequests)
         \/ getOrderFindOne(w)
         \/ getOrderFindOneReply(w)
         \/ getUserOrders(w, ItemsListRequests)
         \/ getUserOrdersFind(w)
         \/ getUserOrdersFindReply(w)
         \/ getUserOrdersCursorAll(w)
         \/ getUserOrdersCursorAllReply(w)
         \/ updateOrderStatus(w, ItemsStatusRequests)
         \/ updateOrderStatusUpdateOne(w)
         \/ updateOrderStatusUpdateOneReply(w)
         \/ Finish(w)

SpecItems == Init /\ [][NextItems]_vars

\* uuid.UUID.String(): 36 characters, hyphens at 9, 14, 19 and 24
UUIDStringLen == 36
UUIDString(n) ==
    [i \in 1..UUIDStringLen |->
        IF i \in {9, 14, 19, 24} THEN NonHex
        ELSE IF i = UUIDStringLen THEN n ELSE 0]

\* retrieval by every storage id and every order id, after transitions
OrderIdParams == {UUIDString(n) : n \in 1..MaxOrders}

LookupCreateRequests ==
    {Req("create", h, <<>>, "", Body(TRUE, GoodItems, "")) : h \in CoreHeaders}
LookupGetRequests ==
    {Req("get", h, id, "", NoBody) :
        h \in CoreHeaders \cup {Header("Bearer ", TokNoUid)},
        id \in IdParams \cup OrderIdParams}
LookupStatusRequests ==
    {Req("status", BearerU2, Hex(n), "", Body(FALSE, <<>>, st)) :
        n \in 1..MaxOrders, st \in {"confirmed", "delivered"}}

NextLookup ==
    \/ Tick
    \/ \E w \in Workers :
         \/ createOrder(w, LookupCreateRequests)
         \/ createOrderInsertOne(w)
         \/ createOrderInsertOneReply(w)
         \/ getOrder(w, LookupGetRequests)
         \/ getOrderFindOne(w)
         \/ getOrderFindOneReply(w)
         \/ updateOrderStatus(w, LookupStatusRequests)
         \/ updateOrderStatusUpdateOne(w)
         \/ updateOrderStatusUpdateOneReply(w)
         \/ Finish(w)

SpecLookup == Init /\ [][NextLookup]_vars

\* ------------------------------------------------------- concurrent handling
\* two workers handling requests at once, both creating orders and
\* transitioning the first one
ConcWorkers == {"w1", "w2"}

ConcStatusRequests ==
    {Req("status", BearerU2, Hex(1), "", Body(FALSE, <<>>, st)) :
        st \in {"confirmed", "cancelled"}}

InitConc ==
    /\ store = {}
    /\ clock = 0
    /\ uuidCounter = 0
    /\ oidCounter = 0
    /\ ctx = [w \in ConcWorkers |-> IdleCtx]

NextConc ==
    \/ Tick
    \/ \E w \in ConcWorkers :
         \/ createOrder(w, StatusCreateRequests)
         \/ createOrderInsertOne(w)
         \/ createOrderInsertOneReply(w)
         \/ updateOrderStatus(w, ConcStatusRequests)
         \/ updateOrderStatusUpdateOne(w)
         \/ updateOrderStatusUpdateOneReply(w)
         \/ Finish(w)

SpecConc == InitConc /\ [][NextConc]_vars

\* two workers, a reader and a writer: w1 lists u1's orders and retrieves
\* the first order while w2 creates orders for both subjects and transitions
\* the first one
ListCreateRequests ==
    {Req("create", h, <<>>, "", Body(TRUE, GoodItems, "")) : h \in CoreHeaders}
ListStatusRequests == {Req("status", BearerU2, Hex(1), "", Body(FALSE, <<>>, "shipped"))}

NextList ==
    \/ Tick
    \/ getUserOrders("w1", StatusListRequests)
    \/ getUserOrdersFind("w1")
    \/ getUserOrdersFindReply("w1")
    \/ getUserOrdersCursorAll("w1")
    \/ getUserOrdersCursorAllReply("w1")
    \/ getOrder("w1", StatusGetRequests)
    \/ getOrderFindOne("w1")
    \/ getOrderFindOneReply("w1")
    \/ createOrder("w2", ListCreateRequests)
    \/ createOrderInsertOne("w2")
    \/ createOrderInsertOneReply("w2")
    \/ updateOrderStatus("w2", ListStatusRequests)
    \/ updateOrderStatusUpdateOne("w2")
    \/ updateOrderStatusUpdateOneReply("w2")
    \/ \E w \in ConcWorkers : Finish(w)

SpecList == InitConc /\ [][NextList]_vars

\* ------------------------------------------------------------------ claims
\* Vocabulary of the claims, stated independently of the handlers.

\* the fixed status enumeration
StatusEnum == {"pending", "confirmed", "shipped", "delivered", "cancelled"}

\* the request passed the Identity Verifier and reached a handler
Authenticated(c) == KeyExists(c.keys, "userID")

\* the request has been answered
Answered(c) == c.pc = "done"

\* a well-formed storage id: 24 hex digits
WellFormedId(id) == Len(id) = 24 /\ \A i \in 1..Len(id) : id[i] < 16

\* the persisted orders the path parameter addresses
Addressed(coll, id) == {o \in coll : Hex(o.id) = id}

\* sum over the items of unitPrice x quantity
RECURSIVE SumItems(_)
SumItems(items) ==
    IF items = <<>> THEN 0
    ELSE Head(items).price * Head(items).quantity + SumItems(Tail(items))

\* an item list Create must reject
InvalidItems(items) ==
    \/ items = <<>>
    \/ \E i \in 1..Len(items) : items[i].quantity <= 0 \/ items[i].price < 0

\* no credential, no Bearer scheme, or a failure of the signature or of the
\* time verification (expired, issued in the future, not yet valid)
BadCredential(h) ==
    \/ h.prefix = "" /\ h.rest.alg = ""
    \/ h.prefix # "Bearer "
    \/ ~h.rest.wf
    \/ h.rest.key # "secret"
    \/ h.rest.exp = "past"
    \/ h.rest.iat = "future"
    \/ h.rest.nbf = "future"

\* the identity a credential's claim set carries
CallerOf(h) == MapGet(h.rest.claims, "userId")

\* worker w's request is answered in this step
AnswerStep(w) == ctx[w].pc # "done" /\ ctx'[w].pc = "done"

\* the store serves worker w's InsertOne in this step
InsertStep(w) == ctx[w].pc = "insert" /\ ctx'[w].pc = "insertReply"

\* the store serves worker w's UpdateOne in this step
UpdateStep(w) == ctx[w].pc = "update" /\ ctx'[w].pc = "updateReply"

\* the store serves worker w's FindOne in this step
FindOneStep(w) == ctx[w].pc = "findOne" /\ ctx'[w].pc = "findOneReply"

\* the store serves worker w's Find, and the getMore of its cursor.All
FindStep(w) == ctx[w].pc = "find" /\ ctx'[w].pc = "findReply"
GetMoreStep(w) == ctx[w].pc = "cursorAll" /\ ctx'[w].pc = "cursorAllReply"

\* the call worker w is parked in came back without an error
CallOK(c) == c.op.err = ""

\* the stored statuses of the orders a path parameter addresses
StoredStatus(coll, id) == {o.status : o \in Addressed(coll, id)}

\* C1: a list-by-owner request whose authenticated caller's identity differs
\* from the requested userId is answered 403 Forbidden and performs no
\* repository access, whether or not orders of userId exist.
C1_MismatchForbidden ==
    \A w \in DOMAIN ctx :
        (/\ ctx[w].req.op = "list"
         /\ Authenticated(ctx[w])
         /\ CallerOf(ctx[w].req.hdr) # StrV(ctx[w].req.userId))
        => (/\ Answered(ctx[w])
            /\ ctx[w].resp.code = 403
            /\ ctx[w].calls = 0)

\* The same for callers whose identity is a string: 403, no repository access.
C1_StringMismatchForbidden ==
    \A w \in DOMAIN ctx :
        (/\ ctx[w].req.op = "list"
         /\ Authenticated(ctx[w])
         /\ IsString(CallerOf(ctx[w].req.hdr))
         /\ CallerOf(ctx[w].req.hdr) # StrV(ctx[w].req.userId))
        => (/\ Answered(ctx[w])
            /\ ctx[w].resp.code = 403
            /\ ctx[w].calls = 0)

C3_StatusInEnum == \A o \in store : o.status \in StatusEnum

\* C3 witness: a transition to a string outside the enumeration was answered
\* for an existing, already transitioned order.
C3_Witness ==
    \E w \in DOMAIN ctx :
        /\ Answered(ctx[w])
        /\ ctx[w].req.op = "status"
        /\ Authenticated(ctx[w])
        /\ ctx[w].req.body.status \notin StatusEnum \cup {""}
        /\ \E o \in Addressed(store, ctx[w].req.id) : o.status = "delivered"

\* C4: an authenticated status transition whose target is outside the
\* enumeration is answered 400 and modifies no stored order, whether or not
\* the addressed order exists.
C4_InvalidStatusRejected ==
    [][\A w \in DOMAIN ctx :
          (/\ ctx[w].pc = "idle"
           /\ ctx'[w].pc # "idle"
           /\ ctx'[w].req.op = "status"
           /\ Authenticated(ctx'[w])
           /\ ctx'[w].req.body.status \notin StatusEnum)
          => (/\ Answered(ctx'[w])
              /\ ctx'[w].resp.code = 400
              /\ ctx'[w].calls = 0
              /\ store' = store)]_vars

\* C4 witness: such a request addressed to an existing order was answered.
C4_Witness ==
    \E w \in DOMAIN ctx :
        /\ Answered(ctx[w])
        /\ ctx[w].req.op = "status"
        /\ Authenticated(ctx[w])
        /\ ctx[w].req.body.status = "refunded"
        /\ Addressed(store, ctx[w].req.id) # {}
        /\ ctx[w].resp.code = 400

\* C5 as stated: a valid transition addressed to an id matching no persisted
\* order is answered 404.
C5_NoMatchNotFound ==
    \A w \in DOMAIN ctx :
        (/\ Answered(ctx[w])
         /\ ctx[w].req.op = "status"
         /\ Authenticated(ctx[w])
         /\ ctx[w].req.body.status \in StatusEnum
         /\ Addressed(store, ctx[w].req.id) = {})
        => ctx[w].resp.code = 404

\* C5 amended: a valid transition addressed to an id matching no persisted
\* order leaves the store unchanged at every step of its handling (no upsert,
\* no modification); it is answered 400 when the id is not a well-formed
\* storage id, and otherwise 404, or 500 when the repository call itself
\* fails.
C5_NoMatchNoChange ==
    [][\A w \in DOMAIN ctx :
          (/\ ctx'[w].pc # ctx[w].pc
           /\ ctx'[w].req.op = "status"
           /\ Authenticated(ctx'[w])
           /\ ctx'[w].req.body.status \in StatusEnum
           /\ Addressed(store, ctx'[w].req.id) = {})
          => (/\ store' = store
              /\ AnswerStep(w) =>
                   IF WellFormedId(ctx'[w].req.id)
                   THEN ctx'[w].calls = 1 /\ ctx'[w].resp.code \in {404, 500}
                   ELSE ctx'[w].calls = 0 /\ ctx'[w].resp.code = 400)]_vars

\* C5 witness: a 404 for a well-formed id while other orders are persisted.
C5_Witness ==
    \E w \in DOMAIN ctx :
        /\ Answered(ctx[w])
        /\ ctx[w].req.op = "status"
        /\ ctx[w].req.body.status \in StatusEnum
        /\ WellFormedId(ctx[w].req.id)
        /\ Addressed(store, ctx[w].req.id) = {}
        /\ ctx[w].resp.code = 404
        /\ store # {}

\* C6: every persisted order's totalAmount is the sum over its items of
\* unitPrice x quantity of the item list its create request carried, and no
\* later step changes its items or its totalAmount.
C6_TotalIsSum ==
    [][/\ \A o \in store' : o.total_amount = SumItems(o.items)
       /\ \A o \in store : \E n \in store' :
             n.id = o.id /\ n.items = o.items /\ n.total_amount = o.total_amount
       /\ \A w \in DOMAIN ctx :
             (AnswerStep(w) /\ ctx'[w].req.op = "create" /\ ctx'[w].resp.code = 201)
             => (/\ ctx'[w].resp.body.items = ctx'[w].req.body.items
                 /\ ctx'[w].resp.body.total_amount = SumItems(ctx'[w].req.body.items)
                 /\ ctx'[w].resp.body \in store')]_vars

\* C6 witness: an order of two items, 5 x 1 + 3 x 2, that has been transitioned.
C6_Witness ==
    \E o \in store :
        /\ Len(o.items) = 2
        /\ o.total_amount = 11
        /\ o.status = "shipped"

\* C7: a successful create by subject u persists exactly one new order, with
\* status pending and ownerID u, and the response (201) is that persisted
\* order with its storage-assigned id.  (insert) the InsertOne adds one
\* order, pending, of u, under an id no stored order has, and no other step
\* of the handler touches the store; (answer) a success is a 201 after an
\* InsertOne that returned no error, and its body is the order then
\* inserted, which is in the store.
C7_CreatePersistsOne ==
    [][\A w \in DOMAIN ctx :
          /\ InsertStep(w)
               => \/ ~CallOK(ctx'[w]) /\ store' = store
                  \/ \E o \in store' \ store :
                        /\ store' = store \cup {o}
                        /\ o.status = "pending"
                        /\ StrV(o.user_id) = CallerOf(ctx[w].req.hdr)
                        /\ o.id # 0
                        /\ \A p \in store : p.id # o.id
                        /\ CallOK(ctx'[w]) => ctx'[w].op.result.InsertedID = o.id
          /\ (ctx'[w].pc # ctx[w].pc /\ ctx'[w].req.op = "create" /\ ~InsertStep(w))
               => store' = store
          /\ (/\ AnswerStep(w)
              /\ ctx'[w].req.op = "create"
              /\ ctx'[w].resp.code \in 200..299)
               => (/\ ctx'[w].resp.code = 201
                   /\ ctx[w].pc = "insertReply"
                   /\ CallOK(ctx[w])
                   /\ ctx'[w].resp.body.id = ctx[w].op.result.InsertedID
                   /\ ctx'[w].resp.body \in store'
                   /\ \A o \in store' :
                         o.id = ctx'[w].resp.body.id => o = ctx'[w].resp.body
                   /\ ctx'[w].resp.body.status = "pending"
                   /\ StrV(ctx'[w].resp.body.user_id) = CallerOf(ctx'[w].req.hdr)
                   /\ ctx'[w].resp.body.id # 0)]_vars

\* C7 witness: a second order was created and answered 201.
C7_Witness ==
    \E w \in DOMAIN ctx :
        /\ Answered(ctx[w])
        /\ ctx[w].req.op = "create"
        /\ ctx[w].resp.code = 201
        /\ ctx[w].resp.body \in store
        /\ Cardinality(store) = 2

\* C8: no two persisted orders share an orderID, under any interleaving of
\* create requests, and no step changes the orderID of a persisted order.
C8_OrderIDUnique ==
    [][/\ \A o1, o2 \in store' : o1.order_id = o2.order_id => o1 = o2
       /\ \A o \in store : \E n \in store' :
             n.id = o.id /\ n.order_id = o.order_id]_vars

\* C8 witness: two orders persisted by overlapping creates (the one whose
\* orderID was issued first was inserted last), one of them transitioned.
C8_Witness ==
    \E o1, o2 \in store :
        /\ o1.order_id < o2.order_id
        /\ o1.id > o2.id
        /\ o2.status # "pending"

\* C9: create answers 400 to every request whose item list is empty or has
\* an item with non-positive quantity or negative price, and no such order
\* is ever persisted.
C9_InvalidItemsRejected ==
    /\ \A w \in DOMAIN ctx :
          (/\ Answered(ctx[w])
           /\ ctx[w].req.op = "create"
           /\ Authenticated(ctx[w])
           /\ IsString(CallerOf(ctx[w].req.hdr))
           /\ ctx[w].req.body.present
           /\ InvalidItems(ctx[w].req.body.items))
          => ctx[w].resp.code = 400
    /\ \A o \in store : ~InvalidItems(o.items)

\* C10: a request to any /api/orders operation with no credential, without
\* the Bearer scheme, or with a credential failing signature or expiry
\* verification is answered 401 without reaching a handler: no repository
\* call is made and no stored order changes.
C10_BadCredentialRejected ==
    [][\A w \in DOMAIN ctx :
          (/\ ctx[w].pc = "idle"
           /\ ctx'[w].pc # "idle"
           /\ BadCredential(ctx'[w].req.hdr))
          => (/\ Answered(ctx'[w])
              /\ ctx'[w].resp.code = 401
              /\ ~Authenticated(ctx'[w])
              /\ ctx'[w].calls = 0
              /\ store' = store)]_vars

\* C10 witness: a transition request signed with another key, addressed to
\* an existing order it would have changed, was answered 401.
C10_Witness ==
    \E w \in DOMAIN ctx :
        /\ Answered(ctx[w])
        /\ ctx[w].req.op = "status"
        /\ ctx[w].req.hdr.prefix = "Bearer "
        /\ ctx[w].req.hdr.rest.wf
        /\ ctx[w].req.hdr.rest.key # "secret"
        /\ ctx[w].resp.code = 401
        /\ \E o \in Addressed(store, ctx[w].req.id) : o.status # ctx[w].req.body.status

\* the algorithm the token issuer signs with (jsonwebtoken's default)
IssuerAlg == "HS256"

\* the request carries a Bearer token signed with the service secret that
\* decodes and is inside its validity period
SignedWithSecret(h) ==
    /\ h.prefix = "Bearer "
    /\ h.rest.wf
    /\ h.rest.key = "secret"
    /\ h.rest.exp # "past"
    /\ h.rest.iat # "future"
    /\ h.rest.nbf # "future"

\* C11 as stated: every credential whose signing algorithm differs from the
\* one symmetric algorithm of the service is answered 401, even when it is
\* signed with the shared secret.
C11_OtherAlgRejected ==
    \A w \in DOMAIN ctx :
        (/\ ctx[w].pc # "idle"
         /\ SignedWithSecret(ctx[w].req.hdr)
         /\ ctx[w].req.hdr.rest.alg # IssuerAlg)
        => (Answered(ctx[w]) /\ ctx[w].resp.code = 401)

\* C11 amended: every credential whose signing algorithm is not an HMAC
\* algorithm (HS256, HS384, HS512) is answered 401 without reaching a
\* handler, even when it is signed with the shared secret; a credential
\* signed with the shared secret under any HMAC algorithm is accepted.
C11_NonHMACRejected ==
    [][\A w \in DOMAIN ctx :
          (/\ ctx[w].pc = "idle"
           /\ ctx'[w].pc # "idle"
           /\ SignedWithSecret(ctx'[w].req.hdr))
          => IF ctx'[w].req.hdr.rest.alg \in {"HS256", "HS384", "HS512"}
             THEN Authenticated(ctx'[w]) /\ ctx'[w].resp.code # 401
             ELSE /\ Answered(ctx'[w])
                  /\ ctx'[w].resp.code = 401
                  /\ ~Authenticated(ctx'[w])
                  /\ ctx'[w].calls = 0
                  /\ store' = store]_vars

\* C11 witness: a transition request with an RS256 token carrying the
\* secret, addressed to an existing order it would have changed, got 401.
C11_Witness ==
    \E w \in DOMAIN ctx :
        /\ Answered(ctx[w])
        /\ ctx[w].req.op = "status"
        /\ SignedWithSecret(ctx[w].req.hdr)
        /\ ctx[w].req.hdr.rest.alg = "RS256"
        /\ ctx[w].resp.code = 401
        /\ \E o \in Addressed(store, ctx[w].req.id) : o.status # ctx[w].req.body.status

\* the persisted orders whose externally visible orderID the parameter is
ByOrderID(coll, id) == {o \in coll : UUIDString(o.order_id) = id}

\* C12: retrieve-by-id with the orderID of a persisted order returns that
\* order, and with an id that is the orderID of no persisted order returns
\* NotFound.
C12_LookupByOrderID ==
    \A w \in DOMAIN ctx :
        (/\ Answered(ctx[w])
         /\ ctx[w].req.op = "get"
         /\ Authenticated(ctx[w]))
        => IF ByOrderID(store, ctx[w].req.id) # {}
           THEN /\ ctx[w].resp.code = 200
                /\ ctx[w].resp.body \in ByOrderID(store, ctx[w].req.id)
           ELSE ctx[w].resp.code = 404

\* the repository call of the request returned an error (500 after the call)
RepositoryFailed(c) == c.calls = 1 /\ c.resp.code = 500

\* C13: retrieve-by-id performs no ownership check: for every persisted
\* order and every authenticated subject, the owner or not, retrieval by the
\* order's storage id is answered 200 with that order (the repository call
\* not failing).
C13_GetIgnoresOwner ==
    \A w \in DOMAIN ctx :
        (/\ Answered(ctx[w])
         /\ ctx[w].req.op = "get"
         /\ Authenticated(ctx[w])
         /\ Addressed(store, ctx[w].req.id) # {}
         /\ ~RepositoryFailed(ctx[w]))
        => (/\ ctx[w].resp.code = 200
            /\ ctx[w].resp.body \in Addressed(store, ctx[w].req.id))

\* C13 witness: u2 retrieved an order of u1.
C13_Witness ==
    \E w \in DOMAIN ctx :
        /\ Answered(ctx[w])
        /\ ctx[w].req.op = "get"
        /\ CallerOf(ctx[w].req.hdr) = StrV("u2")
        /\ ctx[w].resp.code = 200
        /\ ctx[w].resp.body.user_id = "u1"
        /\ ctx[w].resp.body \in store

\* C14: under any interleaving, every step keeps every persisted order's
\* ownerID, orderID, items, totalAmount and createdAt, and an order changes
\* at all only in a transition addressed to it, which sets its status to the
\* requested one.
C14_TransitionFrame ==
    [][\A o \in store : \E n \in store' :
          /\ n.id = o.id
          /\ n.user_id = o.user_id
          /\ n.order_id = o.order_id
          /\ n.items = o.items
          /\ n.total_amount = o.total_amount
          /\ n.created_at = o.created_at
          /\ n # o =>
               \E w \in DOMAIN ctx :
                  /\ UpdateStep(w)
                  /\ ctx[w].req.id = Hex(o.id)
                  /\ n.status = ctx[w].req.body.status
                  /\ n.updated_at = ctx[w].op.updated_at]_vars

\* C14 witness: of two persisted orders one was transitioned and the other
\* is as created.
C14_Witness ==
    \E o1, o2 \in store :
        /\ o1.id # o2.id
        /\ o1.status = "cancelled"
        /\ o2.status = "pending"
        /\ o2.updated_at <= o1.updated_at


\* C15: a transition request for an existing order and a target status of
\* the enumeration succeeds whatever the order's current status is: unless
\* the repository call itself fails, the write sets the stored status to the
\* target, and the answer is 200 with the target while the store holds it.
C15_AnyTransitionSucceeds ==
    [][\A w \in DOMAIN ctx :
          /\ (/\ UpdateStep(w)
              /\ ctx[w].req.body.status \in StatusEnum
              /\ Addressed(store, ctx[w].req.id) # {}
              /\ CallOK(ctx'[w]))
               => /\ Addressed(store', ctx[w].req.id) # {}
                  /\ \A o \in Addressed(store', ctx[w].req.id) :
                        o.status = ctx[w].req.body.status
          /\ (/\ AnswerStep(w)
              /\ ctx[w].pc = "updateReply"
              /\ ctx[w].req.body.status \in StatusEnum
              /\ Addressed(store, ctx[w].req.id) # {}
              /\ ~RepositoryFailed(ctx'[w]))
               => /\ ctx'[w].resp.code = 200
                  /\ ctx'[w].resp.body.status = ctx[w].req.body.status
                  /\ StoredStatus(store', ctx[w].req.id) = {ctx[w].req.body.status}]_vars

\* C15 witness: a transition back to pending answered 200.  The order was
\* created at the last clock value, so every write to it carries the same
\* updatedAt, and UpdateOne reported a modified document: the write changed
\* the status, that is, the order held a later status before it.
C15_Witness ==
    \E w \in DOMAIN ctx :
        /\ Answered(ctx[w])
        /\ ctx[w].req.op = "status"
        /\ ctx[w].req.body.status = "pending"
        /\ ctx[w].resp.code = 200
        /\ ctx[w].op.result.ModifiedCount = 1
        /\ \E o \in Addressed(store, ctx[w].req.id) :
              /\ o.status = "pending"
              /\ o.created_at = MaxClock
              /\ o.updated_at = MaxClock


\* worker v has a valid transition on the same order in flight (sent, or
\* applied and not yet answered) or answered while worker w handles its own
ConcurrentTransition(w, v) ==
    /\ w # v
    /\ ctx[v].req.op = "status"
    /\ ctx[v].pc \in {"update", "updateReply", "done"}
    /\ ctx[v].req.id = ctx[w].req.id
    /\ ctx[v].req.body.status \in StatusEnum

\* C16: of two concurrent valid transitions on the same existing order,
\* (write) each write that reaches the store matches the order and leaves the
\* stored status at its own target, whatever the other one wrote or was
\* answered; (answer) each write that matched is answered 200 with its own
\* target, never a conflict, whatever the store holds by then and in
\* whichever order the two are answered; (keep) the stored status changes
\* only when a write is applied.  So once both are done the stored status
\* is the target of the last write.  Scope: neither repository call fails.
C16_LastWriteWins ==
    [][/\ \A w, v \in DOMAIN ctx :
            /\ (/\ UpdateStep(w)
                /\ ConcurrentTransition(w, v)
                /\ ctx[w].req.body.status \in StatusEnum
                /\ Addressed(store, ctx[w].req.id) # {}
                /\ CallOK(ctx'[w]))
                 => /\ ctx'[w].op.result.MatchedCount = 1
                    /\ ctx'[v] = ctx[v]
                    /\ ctx[v].pc = "done" /\ ~RepositoryFailed(ctx[v])
                         => ctx[v].resp.code \in {200, 404}
                    /\ \A o \in Addressed(store', ctx[w].req.id) :
                          o.status = ctx[w].req.body.status
            /\ (/\ AnswerStep(w)
                /\ ctx[w].pc = "updateReply"
                /\ ConcurrentTransition(w, v)
                /\ CallOK(ctx[w]))
                 => /\ ctx'[w].resp.code =
                         IF ctx[w].op.result.MatchedCount = 1 THEN 200 ELSE 404
                    /\ ctx[w].op.result.MatchedCount = 1
                         => ctx'[w].resp.body.status = ctx[w].req.body.status
                    /\ ctx'[v] = ctx[v]
                    /\ store' = store
       /\ \A o \in store :
            /\ \E n \in store' : n.id = o.id
            /\ \A n \in store' :
                  (n.id = o.id /\ n.status # o.status)
                  => \E w \in DOMAIN ctx :
                        /\ UpdateStep(w)
                        /\ ctx[w].req.id = Hex(o.id)
                        /\ n.status = ctx[w].req.body.status]_vars

\* C16 witness: both transitions of the same order are answered 200 with
\* different targets, and the store holds the target of w1, whose write came
\* after the one of w2.
C16_Witness ==
    /\ DOMAIN ctx = ConcWorkers
    /\ \A w \in DOMAIN ctx :
          /\ Answered(ctx[w])
          /\ ctx[w].req.op = "status"
          /\ ctx[w].req.id = Hex(1)
          /\ ctx[w].resp.code = 200
    /\ ctx["w1"].req.body.status = "confirmed"
    /\ ctx["w2"].req.body.status = "cancelled"
    /\ \E o \in Addressed(store, Hex(1)) : o.status = "confirmed"


\* C17: read-your-write for transitions, step by step: (write) a write that
\* matched the order leaves its target s stored, and a transition answered
\* 200 carries s while s is stored; (keep) the stored status of an order
\* changes only when a transition on that order is applied; (read) the
\* FindOne of a retrieval reads the order as stored at that moment, and the
\* retrieval is answered 200 with it.  So a retrieval after the answer shows
\* s unless another transition on the order was applied in between.
C17_ReadYourWrite ==
    [][/\ \A w \in DOMAIN ctx :
            /\ (UpdateStep(w) /\ CallOK(ctx'[w])
                /\ Addressed(store, ctx[w].req.id) # {})
                 => StoredStatus(store', ctx[w].req.id) = {ctx[w].req.body.status}
            /\ (AnswerStep(w) /\ ctx'[w].req.op = "status" /\ ctx'[w].resp.code = 200)
                 => /\ ctx'[w].resp.body.status = ctx'[w].req.body.status
                    /\ StoredStatus(store', ctx'[w].req.id) = {ctx'[w].req.body.status}
       /\ \A o \in store :
            /\ \E n \in store' : n.id = o.id
            /\ \A n \in store' :
                  (n.id = o.id /\ n.status # o.status)
                  => \E w \in DOMAIN ctx : UpdateStep(w) /\ ctx[w].req.id = Hex(o.id)
       /\ \A w \in DOMAIN ctx :
            /\ (FindOneStep(w) /\ Addressed(store, ctx[w].req.id) # {})
                 => \/ /\ CallOK(ctx'[w])
                       /\ ctx'[w].op.order \in Addressed(store, ctx[w].req.id)
                    \/ ctx'[w].op.err = "error"
            /\ (/\ AnswerStep(w)
                /\ ctx[w].pc = "findOneReply"
                /\ Addressed(store, ctx[w].req.id) # {})
                 => \/ /\ ctx'[w].resp.code = 200
                       /\ ctx'[w].resp.body = ctx[w].op.order
                       /\ ctx'[w].resp.body \in Addressed(store, ctx[w].req.id)
                       /\ StoredStatus(store, ctx[w].req.id) = {ctx'[w].resp.body.status}
                    \/ RepositoryFailed(ctx'[w])]_vars

\* C17 witness: a retrieval answered 200 that shows a status written by a
\* transition, with updatedAt advanced past createdAt.
C17_Witness ==
    \E w \in DOMAIN ctx :
        /\ Answered(ctx[w])
        /\ ctx[w].req.op = "get"
        /\ ctx[w].resp.code = 200
        /\ ctx[w].resp.body.status = "confirmed"
        /\ ctx[w].resp.body.updated_at > ctx[w].resp.body.created_at
        /\ ctx[w].resp.body \in store


\* C18: every persisted order has updatedAt >= createdAt, and no step lowers
\* the stored updatedAt of an order, also when transitions on the same order
\* are handled concurrently.
C18_UpdatedAtMonotone ==
    [][/\ \A o \in store' : o.updated_at >= o.created_at
       /\ \A o \in store : \A n \in store' :
            n.id = o.id => n.updated_at >= o.updated_at]_vars


\* a validly signed, unexpired token of the issuer's method whose claims hold
\* no string userId
NoStringUserId(h) ==
    /\ SignedWithSecret(h)
    /\ h.rest.alg = IssuerAlg
    /\ CallerOf(h).t # "string"

\* C19: a request with a validly signed token that has no string userId is
\* answered 401 by create and 403 by list-by-owner, reaches no repository
\* call, and is never answered by the panic recovery.
C19_NoUserIdRejected ==
    \A w \in DOMAIN ctx :
        (Answered(ctx[w]) /\ NoStringUserId(ctx[w].req.hdr))
        => /\ ctx[w].resp # Recovered
           /\ ctx[w].req.op = "create" => ctx[w].resp.code = 401 /\ ctx[w].calls = 0
           /\ ctx[w].req.op = "list" => ctx[w].resp.code = 403 /\ ctx[w].calls = 0


\* the answer to a transition request as a function of the store, the order
\* id and the target status alone
TransitionCode(coll, id, st) ==
    IF ~WellFormedId(id) \/ st \notin StatusEnum THEN 400
    ELSE IF Addressed(coll, id) = {} THEN 404
    ELSE 200

\* C20: the outcome of a transition is a function of the store, the order id
\* and the target status and not of the caller: whoever the authenticated
\* subject is, owner or not, the write sets the target on the addressed order
\* when it exists and changes nothing otherwise, and the answer is
\* TransitionCode, with the target in its body and in the store when it is
\* 200 and the store untouched otherwise (a failing repository call aside).
C20_CallerIndependent ==
    [][\A w \in DOMAIN ctx :
          /\ (/\ UpdateStep(w)
              /\ CallerOf(ctx[w].req.hdr) \in {StrV(u) : u \in Users}
              /\ CallOK(ctx'[w]))
               => IF TransitionCode(store, ctx[w].req.id, ctx[w].req.body.status) = 200
                  THEN /\ StoredStatus(store', ctx[w].req.id) = {ctx[w].req.body.status}
                       /\ \A o \in store : Hex(o.id) # ctx[w].req.id => o \in store'
                  ELSE store' = store
          /\ (/\ AnswerStep(w)
              /\ ctx'[w].req.op = "status"
              /\ CallerOf(ctx'[w].req.hdr) \in {StrV(u) : u \in Users}
              /\ Authenticated(ctx'[w])
              /\ ~RepositoryFailed(ctx'[w]))
               => LET req == ctx'[w].req
                      code == TransitionCode(store, req.id, req.body.status) IN
                  /\ ctx'[w].resp.code = code
                  /\ code = 200 =>
                       /\ ctx'[w].resp.body.status = req.body.status
                       /\ StoredStatus(store', req.id) = {req.body.status}
                  /\ code # 200 => store' = store]_vars

\* C20 witness: a subject who does not own the order moved it to shipped and
\* was answered 200.
C20_Witness ==
    \E w \in DOMAIN ctx :
        /\ Answered(ctx[w])
        /\ ctx[w].req.op = "status"
        /\ ctx[w].resp.code = 200
        /\ ctx[w].req.body.status = "shipped"
        /\ \E o \in Addressed(store, ctx[w].req.id) :
              /\ StrV(o.user_id) # CallerOf(ctx[w].req.hdr)
              /\ o.status = "shipped"


\* C21: a transition of an existing order to the status it already has is
\* answered 200, not 404, whether or not the write changes the document, and
\* leaves that status stored: (write) the write matches the order, keeps its
\* status and stamps updatedAt; (answer) a write that matched is answered 200
\* with the target whatever its modified count, and the status is still
\* stored.  So applying a valid transition a second time leaves the stored
\* status as the first application left it.  Scope: the repository call does
\* not fail.
C21_SameStatusSucceeds ==
    [][\A w \in DOMAIN ctx :
          /\ (/\ UpdateStep(w)
              /\ ctx[w].req.body.status \in StatusEnum
              /\ StoredStatus(store, ctx[w].req.id) = {ctx[w].req.body.status}
              /\ CallOK(ctx'[w]))
               => /\ ctx'[w].op.result.MatchedCount = 1
                  /\ StoredStatus(store', ctx[w].req.id) = StoredStatus(store, ctx[w].req.id)
                  /\ \A o \in Addressed(store, ctx[w].req.id) :
                        [o EXCEPT !.updated_at = ctx[w].op.updated_at] \in store'
          /\ (/\ AnswerStep(w)
              /\ ctx[w].pc = "updateReply"
              /\ CallOK(ctx[w])
              /\ ctx[w].op.result.MatchedCount = 1)
               => /\ ctx'[w].resp.code = 200
                  /\ ctx'[w].resp.body.status = ctx[w].req.body.status
                  /\ StoredStatus(store', ctx[w].req.id) = {ctx[w].req.body.status}]_vars

\* C21 witness: a transition to confirmed answered 200 although UpdateOne
\* reported one matched and no modified document: the order held confirmed
\* (with this very updatedAt) before the write reached the store, and holds
\* it after.
C21_Witness ==
    \E w \in DOMAIN ctx :
        /\ Answered(ctx[w])
        /\ ctx[w].req.op = "status"
        /\ ctx[w].req.body.status = "confirmed"
        /\ ctx[w].resp.code = 200
        /\ ctx[w].op.result.MatchedCount = 1
        /\ ctx[w].op.result.ModifiedCount = 0
        /\ StoredStatus(store, ctx[w].req.id) = {"confirmed"}

====
